---- MODULE Spec2Model ----
(***************************************************************************)
(* Model of src/app/api/evaluate-question-set/route.ts: the POST handler,  *)
(* processEvaluation (per-question fan-out, Promise.allSettled join,       *)
(* report assembly), generateOverallSummary and generateFallbackSummary.   *)
(*                                                                         *)
(* String literals of the source that are not ASCII are transliterated:    *)
(*   "ZhuLiJi" = 助理级   "BianJuJi" = 编剧级   "ZhiPianJi" = 制片级       *)
(*   "DaoYanJi" = 导演级  "ZhuanYeJi" = 专业级  "ZiShenJi" = 资深级        *)
(*   "ZongJianJi" = 总监级  "WuFaPingGu" = 无法评估  "WeiHuiDa" = 未回答   *)
(***************************************************************************)
EXTENDS Integers, Sequences, FiniteSets, TLC

\* ------------------------------------------------------------------ bounds
\* largest number of questions in a request
MaxQuestions == 2
\* Date.now() reads a value in 0..MaxClock
MaxClock == 1
\* longest input of generateFallbackSummary in the pure-function specification
MaxEvaluations == 3
\* number of invocations of POST in the specification of the identifiers
MaxInvocations == 2
\* longest input in the specification of two runs of generateFallbackSummary
MaxPairLength == 2

\* ------------------------------------------------------- values and inputs
DateNow == 0..MaxClock
\* Math.random().toString(36).substr(2, 9): "" when Math.random() returns 0
RandomSuffixes == {"", "k3x9q2m1z"}

\* evaluationId is a template string; its parts are kept as a tuple.
\* undefined (the optional parameter left out) is the empty tuple.
NoId == <<>>
AsyncId(t, r) == <<"eval", t, r>>
SyncId(t) == <<"eval", t>>

Unanswered == "WeiHuiDa"
Question(i) == <<"question", i>>

KeyPoints == <<"core", "productThinking", "solution", "balance">>

\* sequences over S of length 0..n
SeqUpTo(S, n) == UNION {[1..k -> S] : k \in 0..n}

\* answers for n questions: 0..n answers, or n answers the first of them empty
AnswersFor(n) ==
  {[i \in 1..k |-> "answer"] : k \in 0..n}
  \cup {[i \in 1..k |-> IF i = 1 THEN "" ELSE "answer"] : k \in {n} \ {0}}

StageType == "professional"
StageTitle == "stage"
QuestionSetIndex == 0

\* request bodies: JSON that cannot be parsed, JSON without a questions
\* array, and well-formed bodies with N distinct questions and 0..N answers
Bodies ==
  {[kind |-> k, questions |-> <<>>, answers |-> <<>>, async |-> a] :
       k \in {"invalidJson", "noQuestions"}, a \in BOOLEAN}
  \cup UNION {
       {[kind |-> "ok", questions |-> [i \in 1..n |-> Question(i)],
         answers |-> ans, async |-> a] :
            ans \in AnswersFor(n), a \in BOOLEAN} : n \in 0..MaxQuestions}

\* performance levels of an individual evaluation
LevelTable == {"ZhuLiJi", "BianJuJi", "ZhiPianJi", "DaoYanJi"}
Unassessable == "WuFaPingGu"
\* what the Evaluator returns in the pipeline specification: a valid
\* evaluation at the highest level or an invalid, unassessable one
EvaluatorResults ==
  {[performanceLevel |-> "DaoYanJi", isValid |-> TRUE],
   [performanceLevel |-> Unassessable, isValid |-> FALSE]}

NoValue == [source |-> "none"]
NoResponse == [kind |-> "none"]
NoReport == [built |-> FALSE]
NoError == [at |-> "none"]
NoSummary == [jsType |-> "unset"]

\* ------------------------------------------------- external collaborators
\* EvaluationRequest built for one question (route.ts 94-106)
RequestData(question, userAnswer) ==
  [question |-> question, category |-> StageType, difficulty |-> "medium",
   keyPoints |-> KeyPoints, userAnswer |-> userAnswer, stageType |-> StageType]

\* EvaluationRequest rebuilt for the last-resort call (route.ts 131-142):
\* the same but without stageType
LastResortRequestData(question, userAnswer) ==
  [question |-> question, category |-> StageType, difficulty |-> "medium",
   keyPoints |-> KeyPoints, userAnswer |-> userAnswer]

\* answers[index] || "WeiHuiDa": a missing entry and the empty string are falsy
\* (UserAnswerNullish is answers[index] ?? "WeiHuiDa": only a missing entry
\* is replaced)
UserAnswerNullish(answers, index) ==
  IF index \in DOMAIN answers THEN answers[index] ELSE Unanswered
UserAnswer(answers, index) ==
  IF index \in DOMAIN answers /\ answers[index] /= "" THEN answers[index]
  ELSE Unanswered

\* a successful reply of aiEvaluationService.evaluateAnswer; question and
\* userAnswer record the request the reply was produced for
EvaluatorReply(requestData, level, isValid) ==
  [question |-> requestData.question, userAnswer |-> requestData.userAnswer,
   performanceLevel |-> level,
   summary |-> "evaluated",
   strengths |-> <<[competency |-> "c", description |-> "strong"]>>,
   improvements |-> <<[competency |-> "c", suggestion |-> "improve", example |-> "e"]>>,
   preliminaryAnalysis |-> [isValid |-> isValid],
   source |-> "evaluator", reason |-> "none"]

\* what the synthesizer puts in its generic evaluation is not in the source:
\* one of these, fixed for the run
FallbackVariants ==
  {[performanceLevel |-> Unassessable, isValid |-> FALSE],
   [performanceLevel |-> "BianJuJi", isValid |-> TRUE]}

Returned(v) == [threw |-> FALSE, value |-> v]
Threw(e) == [threw |-> TRUE, value |-> [source |-> "none", reason |-> e]]

\* aiEvaluationService.generateFallbackEvaluation(requestData, reason?):
\* pure and total, a generic but structurally complete evaluation
generateFallbackEvaluation(requestData, reason, variant) ==
  Returned(
  [question |-> requestData.question, userAnswer |-> requestData.userAnswer,
   performanceLevel |-> variant.performanceLevel,
   summary |-> "generic",
   strengths |-> <<[competency |-> "g", description |-> "generic"]>>,
   improvements |-> <<[competency |-> "g", suggestion |-> "generic", example |-> "g"]>>,
   preliminaryAnalysis |-> [isValid |-> variant.isValid],
   source |-> "fallback", reason |-> reason])

\* --------------------------------------------------- generateFallbackSummary
\* evaluation.preliminaryAnalysis.isValid && performanceLevel !== 'WuFaPingGu'
\* (IsRetainedLevelOnly leaves the isValid test out; IsRetainedEvaluated also
\* drops the evaluations whose summary is the synthesizer's generic text)
IsRetainedLevelOnly(evaluation) == evaluation.performanceLevel /= Unassessable
IsRetainedEvaluated(evaluation) ==
  /\ evaluation.preliminaryAnalysis.isValid
  /\ evaluation.performanceLevel /= Unassessable
  /\ evaluation.summary /= "generic"
IsRetained(evaluation) ==
  evaluation.preliminaryAnalysis.isValid /\ evaluation.performanceLevel /= Unassessable

validEvaluationsOf(individualEvaluations) == SelectSeq(individualEvaluations, IsRetained)

levelScores ==
  [l \in LevelTable |->
     CASE l = "ZhuLiJi" -> 1 [] l = "BianJuJi" -> 2 [] l = "ZhiPianJi" -> 3 [] l = "DaoYanJi" -> 4]

\* levelScores[level] || 1
\* (ScoreOfZero defaults to 0)
ScoreOfZero(level) == IF level \in DOMAIN levelScores THEN levelScores[level] ELSE 0
ScoreOf(level) == IF level \in DOMAIN levelScores THEN levelScores[level] ELSE 1

RECURSIVE totalScoreOf(_)
totalScoreOf(evaluations) ==
  IF evaluations = <<>> THEN 0
  ELSE totalScoreOf(SubSeq(evaluations, 1, Len(evaluations) - 1))
       + ScoreOf(evaluations[Len(evaluations)].performanceLevel)

\* avgScore >= halves/2 with avgScore = total/count (count > 0); the
\* thresholds 3.5, 2.5, 1.5 are 7/2, 5/2, 3/2
\* (AvgAtLeastStrict compares with > in place of >=)
AvgAtLeastStrict(total, count, halves) == 2 * total > halves * count
AvgAtLeast(total, count, halves) == 2 * total >= halves * count

\* the scoring of route.ts 344-376; avgScore is kept as the fraction
\* num/den, divided tells whether line 365 ran
\* (FallbackScoringUnguarded divides without the length > 0 test; 0/0 is NaN
\* and every comparison with NaN is false)
FallbackScoringUnguarded(individualEvaluations) ==
  LET valid == validEvaluationsOf(individualEvaluations)
      total == totalScoreOf(valid)
      count == Len(valid)
  IN [overallLevel |->
        IF count > 0 /\ AvgAtLeast(total, count, 7) THEN "ZongJianJi"
        ELSE IF count > 0 /\ AvgAtLeast(total, count, 5) THEN "ZiShenJi"
        ELSE IF count > 0 /\ AvgAtLeast(total, count, 3) THEN "ZhuanYeJi"
        ELSE "ZhuLiJi",
      avgScore |-> [num |-> total, den |-> count],
      validCount |-> count,
      divided |-> TRUE]
FallbackScoring(individualEvaluations) ==
  LET valid == validEvaluationsOf(individualEvaluations)
      total == totalScoreOf(valid)
      count == Len(valid)
  IN IF count > 0
     THEN [overallLevel |->
             IF AvgAtLeast(total, count, 7) THEN "ZongJianJi"
             ELSE IF AvgAtLeast(total, count, 5) THEN "ZiShenJi"
             ELSE IF AvgAtLeast(total, count, 3) THEN "ZhuanYeJi"
             ELSE "ZhuLiJi",
           avgScore |-> [num |-> total, den |-> count],
           validCount |-> count,
           divided |-> TRUE]
     ELSE [overallLevel |-> "ZhuLiJi",
           avgScore |-> [num |-> 0, den |-> 1],
           validCount |-> 0,
           divided |-> FALSE]

StageInfoOf(questions) ==
  [stageType |-> StageType, stageTitle |-> StageTitle,
   questionSetIndex |-> QuestionSetIndex, questionCount |-> Len(questions)]

\* the returned object (route.ts 378-389): the variable parts of the
\* templated sentence are kept as a tuple
generateFallbackSummary(individualEvaluations, stageInfo) ==
  LET overallLevel == FallbackScoring(individualEvaluations).overallLevel
  IN [overallLevel |-> overallLevel,
      overallSummary |-> <<stageInfo.stageTitle, stageInfo.questionCount, overallLevel>>]

\* route.ts 258-330: one block per evaluation, in order, then the fixed
\* instructions whose output format names overallLevel, summary, strengths
\* and improvements
PromptFormatFields == {"overallLevel", "summary", "strengths", "improvements"}
buildOverallSummaryPrompt(individualEvaluations, stageInfo) ==
  [stageTitle |-> stageInfo.stageTitle, stageType |-> stageInfo.stageType,
   count |-> Len(individualEvaluations),
   evaluations |->
     [i \in DOMAIN individualEvaluations |->
        [number |-> i,
         performanceLevel |-> individualEvaluations[i].performanceLevel,
         summary |-> individualEvaluations[i].summary,
         strengths |-> [k \in DOMAIN individualEvaluations[i].strengths |->
                          individualEvaluations[i].strengths[k].description],
         improvements |-> [k \in DOMAIN individualEvaluations[i].improvements |->
                          individualEvaluations[i].improvements[k].suggestion]]],
   format |-> PromptFormatFields]

\* ------------------------------------------------------ generateOverallSummary
\* JSON values that are not objects; objects are records
JsNull == [jsType |-> "null"]
JsNumber == [jsType |-> "number"]

ModelSummary ==
  [overallLevel |-> "WeiLaiZhiXing (A)", summary |-> "synthesis",
   strengths |-> <<[competency |-> "s1", description |-> "d1"],
                   [competency |-> "s2", description |-> "d2"]>>,
   improvements |-> <<[competency |-> "i1", suggestion |-> "g1", example |-> "e1"],
                      [competency |-> "i2", suggestion |-> "g2", example |-> "e2"]>>]

\* what JSON.parse(content) can yield for a content that parses
ParsedReplies == {JsNull, JsNumber, [summary |-> "synthesis"], ModelSummary}

\* how the exchange with the aggregation model ends (route.ts 210-250):
\* fetch throws, the status is not ok, the content is empty, JSON.parse
\* throws (response.json() throwing and a reply without choices end in the
\* same catch), or the content parses
AggregationOutcomes ==
  {[kind |-> k, parsed |-> JsNull] :
       k \in {"fetchThrows", "notOk", "emptyContent", "unparsable"}}
  \cup {[kind |-> "parsed", parsed |-> v] : v \in ParsedReplies}

\* route.ts 234-255, once fetch has settled with outcome o
\* (SummaryAfterFetchRethrow is the same without the catch of 252-255)
SummaryAfterFetchRethrow(o, individualEvaluations, stageInfo) ==
  IF o.kind = "parsed" THEN Returned(o.parsed)
  ELSE IF o.kind \in {"notOk", "emptyContent"}
  THEN Returned(generateFallbackSummary(individualEvaluations, stageInfo))
  ELSE Threw(o.kind)
SummaryAfterFetch(o, individualEvaluations, stageInfo) ==
  IF o.kind = "parsed" THEN Returned(o.parsed)
  ELSE Returned(generateFallbackSummary(individualEvaluations, stageInfo))

\* ------------------------------------------------------------------- state
VARIABLES
  pc,                    \* where the request is: idle, timer, dispatched, fetching, assemble, done
  body,                  \* the parsed request body
  evaluationId,          \* the evaluationId argument of processEvaluation
  response,              \* what POST returned to the caller
  background,            \* the setTimeout callback: none, scheduled, running, completed, failed
  tasks,                 \* evaluationPromises, one record per question
  evaluatorLog,          \* per question, how its Evaluator call ended and what it returned
  firstSettled,          \* index of the task that settled first, 0 while none has
  fallbackVariant,       \* what generateFallbackEvaluation synthesizes
  apiKey,                \* whether process.env.SILICONFLOW_API_KEY is set
  individualEvaluations, \* the result of the settledEvaluations.map
  summaryCalls,          \* the argument lists generateOverallSummary was called with
  prompt,                \* the prompts built by buildOverallSummaryPrompt
  fetchCalls,            \* number of calls to the aggregation model
  aggregation,           \* how generateOverallSummary ended
  overallSummary,        \* the value generateOverallSummary resolved to
  report,                \* the AggregatedReport returned by processEvaluation
  thrown,                \* where an exception escaped processEvaluation
  fsInput,               \* pure-function specification: the input of generateFallbackSummary
  fsResult,              \* its returned object
  fsLog,                 \* what it logged: overallLevel, avgScore, validCount
  fsDone,                \* whether it has run
  fsOther,               \* two-run specification: the input of the second run
  fsOtherResult,         \* its returned object
  fsOtherDone,           \* whether the second run has run
  invocations            \* identifier specification: per invocation its stage and ids

pipelineVars == <<pc, body, evaluationId, response, background, tasks, evaluatorLog, firstSettled,
                  individualEvaluations, summaryCalls, prompt, fetchCalls,
                  aggregation, overallSummary, report, thrown>>
envVars == <<fallbackVariant, apiKey>>
fsVars == <<fsInput, fsResult, fsLog, fsDone, fsOther, fsOtherResult, fsOtherDone>>
idVars == <<invocations>>
vars == <<pipelineVars, envVars, fsVars, idVars>>

NoBody == [kind |-> "none", questions |-> <<>>, answers |-> <<>>, async |-> FALSE]
NoLog == [overallLevel |-> "none", avgScore |-> [num |-> 0, den |-> 1],
          validCount |-> 0, divided |-> FALSE]
NoInvocation == [stage |-> "idle", async |-> FALSE, param |-> NoId,
                 responseId |-> NoId, reportId |-> NoId]
IdsIdle == invocations = [k \in 1..MaxInvocations |-> NoInvocation]
OtherIdle == fsOther = <<>> /\ fsOtherResult = NoSummary /\ fsOtherDone = FALSE

PipelineIdle ==
  /\ pc = "idle"
  /\ body = NoBody
  /\ evaluationId = NoId
  /\ response = NoResponse
  /\ background = "none"
  /\ tasks = <<>>
  /\ evaluatorLog = <<>>
  /\ firstSettled = 0
  /\ individualEvaluations = <<>>
  /\ summaryCalls = <<>>
  /\ prompt = <<>>
  /\ fetchCalls = 0
  /\ aggregation = "none"
  /\ overallSummary = NoSummary
  /\ report = NoReport
  /\ thrown = NoError

Init ==
  /\ PipelineIdle
  /\ fallbackVariant \in FallbackVariants
  /\ apiKey \in BOOLEAN
  /\ fsInput = <<>>
  /\ fsResult = NoSummary
  /\ fsLog = NoLog
  /\ fsDone = FALSE
  /\ IdsIdle
  /\ OtherIdle

\* -------------------------------------------------------------------- POST
ErrorResponse(message) ==
  [kind |-> "error", status |-> 500, error |-> "evaluationFailed", message |-> message]
ProcessingResponse(id) ==
  [kind |-> "processing", status |-> 200, evaluationId |-> id,
   message |-> "started", processingStatus |-> "processing"]
ReportResponse(r) == [kind |-> "report", status |-> 200, report |-> r]

\* an exception leaves processEvaluation: the synchronous caller's catch
\* (route.ts 48-58) answers 500, the timer callback's catch (33-35) logs it
\* (ThrowsToCaller answers 500 in both modes, as if POST awaited the pipeline)
ThrowsToCaller(async, at) ==
  /\ thrown' = [at |-> at]
  /\ pc' = "done"
  /\ response' = ErrorResponse(at)
  /\ background' = IF async THEN "failed" ELSE background
\* (ThrowsLogged only logs the exception in both modes)
ThrowsLogged(async, at) ==
  /\ thrown' = [at |-> at]
  /\ pc' = "done"
  /\ background' = "failed"
  /\ UNCHANGED response
Throws(async, at) ==
  /\ thrown' = [at |-> at]
  /\ pc' = "done"
  /\ IF async
     THEN background' = "failed" /\ UNCHANGED response
     ELSE response' = ErrorResponse(at) /\ UNCHANGED background

\* questions.map(async (question, index) => ...) up to the await of
\* evaluateAnswer (route.ts 90-111): every Evaluator call is issued
Dispatch(questions, answers) ==
  [index \in DOMAIN questions |->
     [status |-> "attempting",
      requestData |-> RequestData(questions[index], UserAnswer(answers, index)),
      value |-> NoValue, reason |-> "none", calls |-> 1]]

\* processEvaluation from its entry to the await of Promise.allSettled
\* (route.ts 79-122)
StartProcessEvaluation(b) ==
  IF b.kind = "noQuestions"
  THEN /\ Throws(b.async, "questionsLength")
       /\ UNCHANGED <<tasks, evaluatorLog>>
  ELSE /\ tasks' = Dispatch(b.questions, b.answers)
       /\ evaluatorLog' = [index \in DOMAIN b.questions |->
                             [outcome |-> "pending", reply |-> NoValue]]
       /\ pc' = "dispatched"
       /\ thrown' = thrown
       /\ response' = response
       /\ background' = IF b.async THEN "running" ELSE background

\* route.ts 10-47: parse the body; in async mode make the id, arm the timer
\* and answer "processing"; otherwise call processEvaluation
POST(b) ==
  /\ pc = "idle"
  /\ body' = b
  /\ IF b.kind = "invalidJson"
     THEN /\ response' = ErrorResponse("requestJson")
          /\ pc' = "done"
          /\ UNCHANGED <<evaluationId, background, tasks, evaluatorLog, thrown>>
     ELSE IF b.async
     THEN \E t \in DateNow, r \in RandomSuffixes :
            /\ evaluationId' = AsyncId(t, r)
            /\ background' = "scheduled"
            /\ response' = ProcessingResponse(AsyncId(t, r))
            /\ pc' = "timer"
            /\ UNCHANGED <<tasks, evaluatorLog, thrown>>
     ELSE /\ StartProcessEvaluation(b)
          /\ UNCHANGED evaluationId
  /\ UNCHANGED <<firstSettled, individualEvaluations, summaryCalls, prompt, fetchCalls,
                 aggregation, overallSummary, report>>
  /\ UNCHANGED <<envVars, fsVars, idVars>>

\* the setTimeout callback (route.ts 28-30) starts processEvaluation
TimerFires ==
  /\ pc = "timer"
  /\ StartProcessEvaluation(body)
  /\ UNCHANGED <<body, evaluationId, firstSettled, individualEvaluations, summaryCalls,
                 prompt, fetchCalls, aggregation, overallSummary, report>>
  /\ UNCHANGED <<envVars, fsVars, idVars>>

\* ------------------------------------------------------- per-question tasks
\* route.ts 111-113: the Evaluator's result is the task's value
TaskOnSuccess(task, result) ==
  [task EXCEPT !.status = "fulfilled", !.value = result]

\* route.ts 114-118: the catch block returns the synthesized evaluation; if
\* that call throws the task's promise is rejected
\* (TaskOnFailureRetry calls the Evaluator a second time in the catch block;
\* TaskOnFailureAbandons leaves the promise unsettled for good)
TaskOnFailureAbandons(task, fallbackThrows, variant) ==
  [task EXCEPT !.status = "abandoned"]
TaskOnFailureRetry(task, fallbackThrows, variant) ==
  IF fallbackThrows
  THEN [task EXCEPT !.status = "rejected", !.reason = "fallbackError", !.calls = @ + 1]
  ELSE [task EXCEPT !.status = "fulfilled", !.calls = @ + 1,
                    !.value = generateFallbackEvaluation(task.requestData, "none", variant).value]
TaskOnFailure(task, fallbackThrows, variant) ==
  IF fallbackThrows
  THEN [task EXCEPT !.status = "rejected", !.reason = "fallbackError"]
  ELSE [task EXCEPT !.status = "fulfilled",
                    !.value = generateFallbackEvaluation(task.requestData, "none", variant).value]

EvaluatorReturns(index) ==
  /\ index \in DOMAIN tasks
  /\ tasks[index].status = "attempting"
  /\ \E r \in EvaluatorResults :
       LET reply == EvaluatorReply(tasks[index].requestData, r.performanceLevel, r.isValid)
       IN /\ tasks' = [tasks EXCEPT ![index] = TaskOnSuccess(@, reply)]
          /\ evaluatorLog' = [evaluatorLog EXCEPT ![index] =
                                 [outcome |-> "returned", reply |-> reply]]
  /\ firstSettled' = IF firstSettled = 0 THEN index ELSE firstSettled
  /\ UNCHANGED <<pc, body, evaluationId, response, background, individualEvaluations,
                 summaryCalls, prompt, fetchCalls, aggregation, overallSummary,
                 report, thrown>>
  /\ UNCHANGED <<envVars, fsVars, idVars>>

EvaluatorFails(index) ==
  /\ index \in DOMAIN tasks
  /\ tasks[index].status = "attempting"
  /\ \E fallbackThrows \in BOOLEAN :
       tasks' = [tasks EXCEPT ![index] = TaskOnFailure(@, fallbackThrows, fallbackVariant)]
  /\ evaluatorLog' = [evaluatorLog EXCEPT ![index] =
                         [outcome |-> "failed", reply |-> NoValue]]
  /\ firstSettled' = IF firstSettled = 0 THEN index ELSE firstSettled
  /\ UNCHANGED <<pc, body, evaluationId, response, background, individualEvaluations,
                 summaryCalls, prompt, fetchCalls, aggregation, overallSummary,
                 report, thrown>>
  /\ UNCHANGED <<envVars, fsVars, idVars>>

\* ------------------------------------------------------------------ the join
\* Promise.allSettled resolves once no promise is pending (route.ts 122)
\* (AnySettled resolves as soon as one promise has settled)
AnySettled(ts) == ts = <<>> \/ \E i \in DOMAIN ts : ts[i].status /= "attempting"
AllSettled(ts) == \A i \in DOMAIN ts : ts[i].status /= "attempting"

\* one element of settledEvaluations.map (route.ts 125-145)
\* (SettleEntryRethrow rethrows the reason of a rejected promise)
SettleEntryRethrow(result, question, userAnswer, variant) ==
  IF result.status = "fulfilled" THEN Returned(result.value)
  ELSE Threw(result.reason)
SettleEntry(result, question, userAnswer, variant) ==
  IF result.status = "fulfilled" THEN Returned(result.value)
  ELSE generateFallbackEvaluation(LastResortRequestData(question, userAnswer),
                                  result.reason, variant)

\* settledEvaluations.map (route.ts 124-146): one entry per settled promise,
\* in the order of the questions
\* (SettledOnlyFulfilled filters the rejected promises out before mapping)
SettledOnlyFulfilled(settled, questions, answers, variant) ==
  LET kept == SelectSeq(settled, LAMBDA result : result.status = "fulfilled")
  IN [index \in DOMAIN kept |->
        SettleEntry(kept[index], questions[index], UserAnswer(answers, index), variant)]
SettledToEntries(settled, questions, answers, variant) ==
  [index \in DOMAIN settled |->
     SettleEntry(settled[index], questions[index], UserAnswer(answers, index), variant)]

\* route.ts 201-232: generateOverallSummary up to its first return or await
\* (SummaryWithoutKeyCalls tests the key after the request has been sent)
SummaryWithoutKeyCalls(evaluations, stageInfo) ==
  /\ prompt' = Append(prompt, buildOverallSummaryPrompt(evaluations, stageInfo))
  /\ fetchCalls' = fetchCalls + 1
  /\ overallSummary' = generateFallbackSummary(evaluations, stageInfo)
  /\ aggregation' = "noKey"
  /\ pc' = "assemble"
SummaryWithoutKey(evaluations, stageInfo) ==
  /\ overallSummary' = generateFallbackSummary(evaluations, stageInfo)
  /\ aggregation' = "noKey"
  /\ pc' = "assemble"
  /\ UNCHANGED <<prompt, fetchCalls>>

SummaryWithKey(evaluations, stageInfo) ==
  /\ prompt' = Append(prompt, buildOverallSummaryPrompt(evaluations, stageInfo))
  /\ fetchCalls' = fetchCalls + 1
  /\ pc' = "fetching"
  /\ UNCHANGED <<overallSummary, aggregation>>

\* route.ts 122-156: the await of allSettled resumes, the entries are
\* mapped and generateOverallSummary is called with them
Join ==
  /\ pc = "dispatched"
  /\ AllSettled(tasks)
  /\ LET entries == SettledToEntries(tasks, body.questions, body.answers, fallbackVariant)
         evaluations == [index \in DOMAIN entries |-> entries[index].value]
     IN IF \E index \in DOMAIN entries : entries[index].threw
        THEN /\ Throws(body.async, "settledMap")
             /\ UNCHANGED <<individualEvaluations, summaryCalls, prompt, fetchCalls,
                            aggregation, overallSummary>>
        ELSE /\ individualEvaluations' = evaluations
             /\ summaryCalls' = Append(summaryCalls, evaluations)
             /\ IF apiKey
                THEN SummaryWithKey(evaluations, StageInfoOf(body.questions))
                ELSE SummaryWithoutKey(evaluations, StageInfoOf(body.questions))
             /\ UNCHANGED <<response, background, thrown>>
  /\ UNCHANGED <<body, evaluationId, tasks, evaluatorLog, firstSettled, report>>
  /\ UNCHANGED <<envVars, fsVars, idVars>>

\* route.ts 232-255: the exchange with the aggregation model ends
FetchSettles(o) ==
  /\ pc = "fetching"
  /\ LET result == SummaryAfterFetch(o, individualEvaluations, StageInfoOf(body.questions))
     IN IF result.threw
        THEN /\ Throws(body.async, "generateOverallSummary")
             /\ aggregation' = o.kind
             /\ UNCHANGED overallSummary
        ELSE /\ overallSummary' = result.value
             /\ aggregation' = o.kind
             /\ pc' = "assemble"
             /\ UNCHANGED <<response, background, thrown>>
  /\ UNCHANGED <<body, evaluationId, tasks, evaluatorLog, firstSettled, individualEvaluations,
                 summaryCalls, prompt, fetchCalls, report>>
  /\ UNCHANGED <<envVars, fsVars, idVars>>

\* ------------------------------------------------------------ report assembly
\* evaluationId || `eval_${Date.now()}` (route.ts 160)
\* (ReportIdFresh ignores the argument and always makes a new id)
ReportIdFresh(id, t) == SyncId(t)
ReportId(id, t) == IF id /= NoId THEN id ELSE SyncId(t)

\* overallSummary.overallLevel (route.ts 174) throws on null
ReadsOverallLevel(summary) == summary /= JsNull

\* the aggregatedReport object (route.ts 159-170)
\* (aggregatedReportValidOnly keeps the valid and assessable evaluations only)
aggregatedReportValidOnly(id, stageInfo, evaluations, summary, stamp) ==
  [built |-> TRUE,
   evaluationId |-> id,
   stageInfo |-> stageInfo,
   individualEvaluations |-> validEvaluationsOf(evaluations),
   overallSummary |-> summary,
   timestamp |-> stamp]
aggregatedReport(id, stageInfo, evaluations, summary, stamp) ==
  [built |-> TRUE,
   evaluationId |-> id,
   stageInfo |-> stageInfo,
   individualEvaluations |-> evaluations,
   overallSummary |-> summary,
   timestamp |-> stamp]

\* route.ts 159-178 and the caller's continuation (30-31, 46-47)
Assemble ==
  /\ pc = "assemble"
  /\ IF ReadsOverallLevel(overallSummary)
     THEN \E t \in DateNow, stamp \in DateNow :
            LET assembled ==
                  aggregatedReport(ReportId(evaluationId, t), StageInfoOf(body.questions),
                                   individualEvaluations, overallSummary, stamp)
            IN /\ report' = assembled
               /\ pc' = "done"
               /\ IF body.async
                  THEN background' = "completed" /\ UNCHANGED response
                  ELSE response' = ReportResponse(assembled) /\ UNCHANGED background
               /\ UNCHANGED thrown
     ELSE /\ Throws(body.async, "overallLevel")
          /\ UNCHANGED report
  /\ UNCHANGED <<body, evaluationId, tasks, evaluatorLog, firstSettled, individualEvaluations,
                 summaryCalls, prompt, fetchCalls, aggregation, overallSummary>>
  /\ UNCHANGED <<envVars, fsVars, idVars>>

Next ==
  \/ \E b \in Bodies : POST(b)
  \/ TimerFires
  \/ \E index \in 1..MaxQuestions : EvaluatorReturns(index)
  \/ \E index \in 1..MaxQuestions : EvaluatorFails(index)
  \/ Join
  \/ \E o \in AggregationOutcomes : FetchSettles(o)
  \/ Assemble

Spec == Init /\ [][Next]_vars

\* The same program under its scheduling. Termination does not depend on
\* the data, so one value stands for each datum that no branch tests: every
\* question has an answer, the clock gives its first reading, the random
\* suffix is empty and an Evaluator that returns returns a valid evaluation.
\* Every branch stays: both modes, each task returning, failing or failing
\* with a failing synthesizer, and each way the aggregation call can end.
FirstReading == CHOOSE t \in DateNow : \A u \in DateNow : t <= u
LiveData ==
  /\ body /= NoBody => body.answers = [i \in DOMAIN body.questions |-> "answer"]
  /\ evaluationId /= NoId => evaluationId = AsyncId(FirstReading, "")
  /\ report.built =>
       /\ report.timestamp = FirstReading
       /\ report.evaluationId \in {AsyncId(FirstReading, ""), SyncId(FirstReading)}
  /\ \A index \in DOMAIN evaluatorLog :
       evaluatorLog[index].outcome = "returned" =>
         evaluatorLog[index].reply.preliminaryAnalysis.isValid
NextLive ==
  \/ (\E b \in Bodies : POST(b)) /\ LiveData'
  \/ TimerFires /\ LiveData'
  \/ (\E index \in 1..MaxQuestions : EvaluatorReturns(index)) /\ LiveData'
  \/ (\E index \in 1..MaxQuestions : EvaluatorFails(index)) /\ LiveData'
  \/ Join /\ LiveData'
  \/ (\E o \in AggregationOutcomes : FetchSettles(o)) /\ LiveData'
  \/ Assemble /\ LiveData'

\* The event loop runs an armed timer and the continuation of a settled
\* await, and every call to the Evaluator and to the aggregation model
\* returns or fails: while one of these steps is possible, one of them is
\* eventually taken. Requests arrive or not.
Progress ==
  \/ TimerFires
  \/ \E index \in 1..MaxQuestions : EvaluatorReturns(index) \/ EvaluatorFails(index)
  \/ Join
  \/ \E o \in AggregationOutcomes : FetchSettles(o)
  \/ Assemble
Fairness == WF_vars(Progress /\ LiveData')
SpecLive == Init /\ [][NextLive]_vars /\ Fairness

\* ------------------------------------- generateFallbackSummary on its own
ScoringLevels == LevelTable \cup {Unassessable, "ZhuanYeJi"}
ScoringInputs ==
  {[performanceLevel |-> l, preliminaryAnalysis |-> [isValid |-> v]] :
      l \in ScoringLevels, v \in BOOLEAN}

InitFallback ==
  /\ PipelineIdle
  /\ fallbackVariant \in FallbackVariants
  /\ apiKey = FALSE
  /\ fsInput \in SeqUpTo(ScoringInputs, MaxEvaluations)
  /\ fsResult = NoSummary
  /\ fsLog = NoLog
  /\ fsDone = FALSE
  /\ IdsIdle
  /\ OtherIdle

\* one call of generateFallbackSummary (route.ts 335-390)
CallFallbackSummary ==
  /\ ~fsDone
  /\ fsResult' = generateFallbackSummary(fsInput, StageInfoOf(fsInput))
  /\ fsLog' = FallbackScoring(fsInput)
  /\ fsDone' = TRUE
  /\ UNCHANGED <<fsInput, fsOther, fsOtherResult, fsOtherDone, pipelineVars, envVars, idVars>>

NextFallback == CallFallbackSummary

SpecFallback == InitFallback /\ [][NextFallback]_vars

\* ----------------------------------- the identifiers of several invocations
\* Invocations of POST that overlap in time; of each only the steps that
\* make or use an evaluationId are kept: route.ts 25 and 38-42 (the id of
\* the asynchronous response), 46 (the synchronous call without an id) and
\* 160 (the id of the report).
InitIds ==
  /\ PipelineIdle
  /\ fallbackVariant \in FallbackVariants
  /\ apiKey = FALSE
  /\ fsInput = <<>>
  /\ fsResult = NoSummary
  /\ fsLog = NoLog
  /\ fsDone = FALSE
  /\ IdsIdle
  /\ OtherIdle

\* route.ts 23-42: asynchronous mode makes the id and answers with it
PostAsync(k) ==
  /\ invocations[k].stage = "idle"
  /\ \E t \in DateNow, r \in RandomSuffixes :
       invocations' = [invocations EXCEPT ![k] =
                         [stage |-> "running", async |-> TRUE, param |-> AsyncId(t, r),
                          responseId |-> AsyncId(t, r), reportId |-> NoId]]
  /\ UNCHANGED <<pipelineVars, envVars, fsVars>>

\* route.ts 46: synchronous mode calls processEvaluation without an id
PostSync(k) ==
  /\ invocations[k].stage = "idle"
  /\ invocations' = [invocations EXCEPT ![k] =
                       [stage |-> "running", async |-> FALSE, param |-> NoId,
                        responseId |-> NoId, reportId |-> NoId]]
  /\ UNCHANGED <<pipelineVars, envVars, fsVars>>

\* route.ts 160 and 47: the report gets its id; in synchronous mode the
\* report is the response
AssembleReport(k) ==
  /\ invocations[k].stage = "running"
  /\ \E t \in DateNow :
       LET invocation == invocations[k]
           id == ReportId(invocation.param, t)
       IN invocations' = [invocations EXCEPT ![k] =
                            [invocation EXCEPT
                               !.stage = "done", !.reportId = id,
                               !.responseId = IF invocation.async THEN @ ELSE id]]
  /\ UNCHANGED <<pipelineVars, envVars, fsVars>>

NextIds ==
  \/ \E k \in 1..MaxInvocations : PostAsync(k)
  \/ \E k \in 1..MaxInvocations : PostSync(k)
  \/ \E k \in 1..MaxInvocations : AssembleReport(k)

SpecIds == InitIds /\ [][NextIds]_vars

\* --------------------------------- two runs of generateFallbackSummary
\* Two calls on inputs chosen independently; the evaluations of the first
\* input carry an Evaluator's summary text, those of the second the
\* synthesizer's generic text.
PairLevels == {"DaoYanJi", "ZhuLiJi", Unassessable}
PairInputs(summary) ==
  {[performanceLevel |-> l, preliminaryAnalysis |-> [isValid |-> v], summary |-> summary] :
      l \in PairLevels, v \in BOOLEAN}

InitPair ==
  /\ PipelineIdle
  /\ fallbackVariant \in FallbackVariants
  /\ apiKey = FALSE
  /\ fsInput \in SeqUpTo(PairInputs("evaluated"), MaxPairLength)
  /\ fsResult = NoSummary
  /\ fsLog = NoLog
  /\ fsDone = FALSE
  /\ fsOther \in SeqUpTo(PairInputs("generic"), MaxPairLength)
  /\ fsOtherResult = NoSummary
  /\ fsOtherDone = FALSE
  /\ IdsIdle

\* the second call of generateFallbackSummary (route.ts 335-390)
CallOtherFallbackSummary ==
  /\ ~fsOtherDone
  /\ fsOtherResult' = generateFallbackSummary(fsOther, StageInfoOf(fsOther))
  /\ fsOtherDone' = TRUE
  /\ UNCHANGED <<fsInput, fsResult, fsLog, fsDone, fsOther, pipelineVars, envVars, idVars>>

NextPair ==
  \/ CallFallbackSummary
  \/ CallOtherFallbackSummary

SpecPair == InitPair /\ [][NextPair]_vars

\* ================================================================== claims
QuestionCount == Len(body.questions)
\* the join has happened and handed its entries to generateOverallSummary
Joined == summaryCalls /= <<>>
EntryFields == {"performanceLevel", "summary", "strengths", "improvements",
                "preliminaryAnalysis"}

\* C1: whatever subset of Evaluator calls fails and in whatever order the
\* tasks end, the join yields exactly one entry per question and the entry
\* at index i is the one made for question i (it carries question i and is
\* the value task i settled with when task i was fulfilled).
C1_OneEntryPerQuestionInOrder ==
  Joined =>
    /\ Len(individualEvaluations) = QuestionCount
    /\ \A i \in 1..QuestionCount :
         /\ individualEvaluations[i].question = body.questions[i]
         /\ tasks[i].status = "fulfilled" => individualEvaluations[i] = tasks[i].value

\* every Evaluator call failed, the last question's task ended first, and
\* the entries are still one per question
C1_Witness ==
  /\ Joined
  /\ QuestionCount >= 2
  /\ firstSettled = QuestionCount
  /\ \A k \in DOMAIN evaluatorLog : evaluatorLog[k].outcome = "failed"
  /\ Len(individualEvaluations) = QuestionCount

\* C2: when the Evaluator call and the catch block's fallback call both
\* failed for question i (task i was rejected), the join still puts a
\* structurally complete entry for question i at index i, made by the
\* last-resort call with the rejection reason, and no exception leaves
\* processEvaluation from the settled map.
C2_LastResortEntry ==
  /\ thrown.at /= "settledMap"
  /\ pc \in {"fetching", "assemble", "done"} =>
       \A i \in DOMAIN tasks :
         tasks[i].status = "rejected" =>
           /\ i \in DOMAIN individualEvaluations
           /\ EntryFields \subseteq DOMAIN individualEvaluations[i]
           /\ individualEvaluations[i].question = body.questions[i]
           /\ individualEvaluations[i].source = "fallback"
           /\ individualEvaluations[i].reason = "fallbackError"

\* a rejected task whose last-resort entry reached the caller in a report
C2_Witness ==
  /\ response.kind = "report"
  /\ \E i \in DOMAIN tasks :
       /\ tasks[i].status = "rejected"
       /\ response.report.individualEvaluations[i].reason = "fallbackError"

AggregationFailures ==
  {"noKey", "fetchThrows", "notOk", "emptyContent", "unparsable"}

\* C3: when the aggregation call fails (no credential, the call throws, a
\* non-success status, a body or content that is empty or does not parse),
\* generateOverallSummary resolves to generateFallbackSummary of the entries
\* it was given, nothing is thrown and the caller gets no error response.
C3_AggregationFailureAbsorbed ==
  aggregation \in AggregationFailures =>
    /\ overallSummary = generateFallbackSummary(summaryCalls[1], StageInfoOf(body.questions))
    /\ thrown = NoError
    /\ response.kind /= "error"
    /\ background /= "failed"

\* the reply did not parse and the caller still got a report with the
\* fallback summary
C3_Witness ==
  /\ aggregation = "unparsable"
  /\ response.kind = "report"
  /\ "overallSummary" \in DOMAIN response.report.overallSummary

\* C4: generateOverallSummary is called only when every task has settled
\* and always with one entry per question; no report or response holds fewer
\* entries than there are questions.
C4_SummaryAfterAllSettled ==
  /\ \A k \in DOMAIN summaryCalls : Len(summaryCalls[k]) = QuestionCount
  /\ Joined =>
       /\ Len(tasks) = QuestionCount
       /\ \A i \in DOMAIN tasks : tasks[i].status \in {"fulfilled", "rejected"}
  /\ report.built => Len(report.individualEvaluations) = QuestionCount
  /\ response.kind = "report" =>
       Len(response.report.individualEvaluations) = QuestionCount

\* the aggregation call is in flight for a request of two or more questions
C4_Witness ==
  /\ pc = "fetching"
  /\ QuestionCount >= 2
  /\ Len(summaryCalls[1]) = QuestionCount

\* C5: the Evaluator is called once per question; after the join the entry
\* at i is the Evaluator's reply for question i when that call returned, and
\* it is a fallback evaluation only when that call failed, whatever happened
\* to the other tasks.
C5_TaskIsolation ==
  /\ \A i \in DOMAIN tasks : tasks[i].calls = 1
  /\ Joined =>
       \A i \in 1..QuestionCount :
         /\ evaluatorLog[i].outcome \in {"returned", "failed"}
         /\ evaluatorLog[i].outcome = "returned" =>
              individualEvaluations[i] = evaluatorLog[i].reply
         /\ individualEvaluations[i].source = "fallback" =>
              evaluatorLog[i].outcome = "failed"

\* one call returned after another had failed, and each entry is its own
C5_Witness ==
  /\ Joined
  /\ \E i, j \in 1..QuestionCount :
       /\ i /= j
       /\ individualEvaluations[i].source = "evaluator"
       /\ individualEvaluations[j].source = "fallback"
       /\ firstSettled = j

\* ------------------------------------------- generateFallbackSummary claims
\* positions of fsInput that pass the filter
Retained ==
  {i \in DOMAIN fsInput :
     /\ fsInput[i].preliminaryAnalysis.isValid = TRUE
     /\ fsInput[i].performanceLevel /= "WuFaPingGu"}
RetainedAt(level) == Cardinality({i \in Retained : fsInput[i].performanceLevel = level})
\* the sum of the ordinals of the retained evaluations, counted level by
\* level; a retained level outside the table counts 1
OrdinalSum ==
  4 * RetainedAt("DaoYanJi") + 3 * RetainedAt("ZhiPianJi") + 2 * RetainedAt("BianJuJi")
  + (Cardinality(Retained) - RetainedAt("DaoYanJi") - RetainedAt("ZhiPianJi")
     - RetainedAt("BianJuJi"))

\* C6: with a non-empty set of retained evaluations of average avg, the
\* overall tier is the top tier iff avg >= 3.5, the second iff
\* 2.5 <= avg < 3.5, the third iff 1.5 <= avg < 2.5 and the bottom tier iff
\* avg < 1.5; an average of exactly 3.5, 2.5 or 1.5 gets the higher tier.
C6_TierThresholds ==
  (fsDone /\ Retained /= {}) =>
    LET n == Cardinality(Retained)
        twice == 2 * OrdinalSum
        tier == fsResult.overallLevel
    IN /\ (tier = "ZongJianJi") <=> (twice >= 7 * n)
       /\ (tier = "ZiShenJi") <=> (twice >= 5 * n /\ twice < 7 * n)
       /\ (tier = "ZhuanYeJi") <=> (twice >= 3 * n /\ twice < 5 * n)
       /\ (tier = "ZhuLiJi") <=> (twice < 3 * n)

\* an average of exactly 3.5 resolved to the top tier
C6_Witness ==
  /\ fsDone
  /\ Retained /= {}
  /\ 2 * OrdinalSum = 7 * Cardinality(Retained)
  /\ fsResult.overallLevel = "ZongJianJi"

\* C7: when no evaluation is retained (empty input, or every evaluation
\* invalid or unassessable) the result is the bottom tier and the averaging
\* division is not executed.
C7_NoneRetainedBottomTier ==
  (fsDone /\ Retained = {}) =>
    /\ fsResult.overallLevel = "ZhuLiJi"
    /\ fsLog.overallLevel = "ZhuLiJi"
    /\ fsLog.validCount = 0
    /\ ~fsLog.divided

\* two evaluations, none retained, bottom tier
C7_Witness ==
  /\ fsDone
  /\ Len(fsInput) >= 2
  /\ Retained = {}
  /\ fsResult.overallLevel = "ZhuLiJi"

\* ------------------------------------------------------ summary shape claims
\* C8: the overall summary of a report carries overallLevel and summary,
\* whether generateFallbackSummary made it or the aggregation model
\* returned an OverallSummary.
C8_SameShapeOnBothPaths ==
  (report.built /\ (aggregation \in AggregationFailures \/ overallSummary = ModelSummary)) =>
    {"overallLevel", "summary"} \subseteq DOMAIN report.overallSummary

\* C9: what generateOverallSummary relays from the aggregation model is an
\* OverallSummary object; a reply that parses to anything else is answered
\* with the fallback summary.
C9_RelaysOnlyOverallSummary ==
  pc \in {"assemble", "done"} =>
    \/ aggregation = "none"
    \/ PromptFormatFields \subseteq DOMAIN overallSummary
    \/ overallSummary = generateFallbackSummary(individualEvaluations, StageInfoOf(body.questions))

\* ----------------------------------------------------------- evaluationId
\* C10: in asynchronous mode the evaluationId of the "processing" response
\* exists before any task is dispatched, and a report the background
\* pipeline builds carries that evaluationId.
C10_AsyncIdStable ==
  /\ pc = "timer" =>
       /\ response.kind = "processing"
       /\ tasks = <<>>
       /\ evaluatorLog = <<>>
       /\ firstSettled = 0
  /\ (body.async /\ (tasks /= <<>> \/ report.built)) =>
       /\ response.kind = "processing"
       /\ response.evaluationId /= NoId
       /\ response.evaluationId = evaluationId
  /\ (body.async /\ report.built) => report.evaluationId = response.evaluationId

\* the background pipeline built a report for a request answered "processing"
C10_Witness ==
  /\ body.async
  /\ background = "completed"
  /\ report.built
  /\ QuestionCount >= 1
  /\ report.evaluationId = response.evaluationId

\* ------------------------------------------------------ asynchronous mode
\* the body parsed and asked for asynchronous mode
AsyncMode == body.kind \in {"ok", "noQuestions"} /\ body.async

\* C11: in asynchronous mode the caller's response is {evaluationId,
\* message, status "processing"} with a success status; it exists while the
\* timer is still pending and no Evaluator call has been issued, and it
\* never changes afterwards, whether the background pipeline completes,
\* fails or is still running.
C11_ProcessingResponseFirst ==
  /\ [](AsyncMode =>
          /\ response = ProcessingResponse(evaluationId)
          /\ response.status = 200
          /\ response.processingStatus = "processing")
  /\ [](pc = "timer" => (AsyncMode /\ tasks = <<>> /\ background = "scheduled"))
  /\ [][response.kind = "processing" => response' = response]_vars

\* the background pipeline failed after the caller was answered "processing"
C11_Witness ==
  /\ AsyncMode
  /\ background = "failed"
  /\ thrown.at = "overallLevel"
  /\ response.kind = "processing"

\* ----------------------------------------------------------- uniqueness
IdsOf(k) == {invocations[k].responseId, invocations[k].reportId} \ {NoId}

\* C12: no two invocations, synchronous or asynchronous, ever have a
\* response or a report with the same evaluationId.
C12_UniqueEvaluationIds ==
  \A j, k \in 1..MaxInvocations : j /= k => IdsOf(j) \cap IdsOf(k) = {}

\* ------------------------------------------------------- request failures
IsErrorResponse(r) ==
  r.kind = "error" /\ r.status = 500 /\ {"error", "message"} \subseteq DOMAIN r
ReportFields == {"evaluationId", "stageInfo", "individualEvaluations",
                 "overallSummary", "timestamp"}
\* all five fields and one individual evaluation per question
CompleteReport(r) ==
  /\ r.built
  /\ ReportFields \subseteq DOMAIN r
  /\ Len(r.individualEvaluations) = r.stageInfo.questionCount
  /\ r.stageInfo.questionCount = QuestionCount

\* C13 as stated: in either mode a body that cannot be used or an exception
\* that leaves processEvaluation gives the caller the error response, and a
\* finished request has a complete report or that error response.
C13_FatalFailureSurfaced ==
  /\ (body.kind = "invalidJson" \/ thrown /= NoError) => IsErrorResponse(response)
  /\ pc = "done" => (CompleteReport(report) \/ IsErrorResponse(response))

\* C13 amended: a body that cannot be parsed gives the error response in
\* either mode and so does an exception leaving processEvaluation in
\* synchronous mode; in asynchronous mode such an exception is only logged
\* and the caller keeps the "processing" response. A finished synchronous
\* request has answered with a complete report or with the error response.
C13_SyncFailureSurfaced ==
  /\ body.kind = "invalidJson" => IsErrorResponse(response)
  /\ (body.kind /= "invalidJson" /\ ~body.async /\ thrown /= NoError) =>
       IsErrorResponse(response)
  /\ (AsyncMode /\ thrown /= NoError) =>
       (response.kind = "processing" /\ background = "failed")
  /\ (pc = "done" /\ ~AsyncMode) =>
       \/ response.kind = "report" /\ CompleteReport(response.report)
       \/ IsErrorResponse(response)
  /\ (pc = "done" /\ AsyncMode) => (CompleteReport(report) \/ background = "failed")

\* a synchronous request without a questions array got the error response
C13_Witness ==
  /\ body.kind = "noQuestions"
  /\ ~body.async
  /\ thrown.at = "questionsLength"
  /\ IsErrorResponse(response)

\* ---------------------------------------------------------------- answers
\* C14 as stated: the request built for question i carries answers[i]
\* whenever the answers sequence has an entry at i and the sentinel exactly
\* when it has none; there is one task and one entry per question.
C14_AnswerOrSentinel ==
  /\ tasks /= <<>> => Len(tasks) = QuestionCount
  /\ \A i \in DOMAIN tasks :
       /\ i \in DOMAIN body.answers => tasks[i].requestData.userAnswer = body.answers[i]
       /\ tasks[i].requestData.userAnswer = "WeiHuiDa" <=> i \notin DOMAIN body.answers
  /\ Joined => Len(individualEvaluations) = QuestionCount

\* C14 amended: the request built for question i carries answers[i] when
\* the answers sequence has a non-empty entry at i, and the sentinel when it
\* has no entry at i or the entry is the empty string; the entry made for
\* question i is made from that request, and there is one task and one
\* entry per question however short the answers sequence is.
C14_NonEmptyAnswerOrSentinel ==
  /\ tasks /= <<>> => Len(tasks) = QuestionCount
  /\ \A i \in DOMAIN tasks :
       /\ tasks[i].requestData.question = body.questions[i]
       /\ (i \in DOMAIN body.answers /\ body.answers[i] /= "") =>
            tasks[i].requestData.userAnswer = body.answers[i]
       /\ (i \notin DOMAIN body.answers \/ body.answers[i] = "") =>
            tasks[i].requestData.userAnswer = "WeiHuiDa"
  /\ Joined =>
       /\ Len(individualEvaluations) = QuestionCount
       /\ \A i \in 1..QuestionCount :
            individualEvaluations[i].userAnswer = tasks[i].requestData.userAnswer

\* two questions and one answer: the second request carries the sentinel
\* and the join still made two entries
C14_Witness ==
  /\ Joined
  /\ QuestionCount >= 2
  /\ Len(body.answers) = QuestionCount - 1
  /\ individualEvaluations[1].userAnswer = "answer"
  /\ individualEvaluations[QuestionCount].userAnswer = "WeiHuiDa"
  /\ Len(individualEvaluations) = QuestionCount

\* ------------------------------------------------ two runs of the scoring
BothDone == fsDone /\ fsOtherDone
LevelsOf(evaluations) ==
  [i \in DOMAIN evaluations |-> evaluations[i].performanceLevel]
ValidityOf(evaluations) ==
  [i \in DOMAIN evaluations |-> evaluations[i].preliminaryAnalysis.isValid]
\* the levels of the evaluations that are valid and assessable, in order
RetainedLevelsOf(evaluations) ==
  LevelsOf(SelectSeq(evaluations,
     LAMBDA e : e.preliminaryAnalysis.isValid = TRUE /\ e.performanceLevel /= "WuFaPingGu"))

C18_OnlyRetainedInfluenceTier ==
  (BothDone /\ RetainedLevelsOf(fsInput) = RetainedLevelsOf(fsOther)) =>
    fsResult.overallLevel = fsOtherResult.overallLevel

\* the second input is the first with invalid or unassessable evaluations
\* added, and both get a tier above the bottom one
C18_Witness ==
  /\ BothDone
  /\ Len(fsOther) > Len(fsInput)
  /\ RetainedLevelsOf(fsInput) /= <<>>
  /\ RetainedLevelsOf(fsInput) = RetainedLevelsOf(fsOther)
  /\ fsResult.overallLevel = fsOtherResult.overallLevel
  /\ fsResult.overallLevel /= "ZhuLiJi"

\* ------------------------------------------------------- report assembly
\* what the dispatcher produced: the entries of the settled tasks, in order
DispatcherOutput ==
  LET entries == SettledToEntries(tasks, body.questions, body.answers, fallbackVariant)
  IN [index \in DOMAIN entries |-> entries[index].value]

\* C16: in every report, individualEvaluations is the sequence the
\* dispatcher produced and generateOverallSummary received, entry for entry,
\* and its length is stageInfo.questionCount and the number of questions,
\* on either summary path.
C16_AssemblyKeepsEvaluations ==
  report.built =>
    /\ report.individualEvaluations = DispatcherOutput
    /\ report.individualEvaluations = summaryCalls[1]
    /\ Len(report.individualEvaluations) = report.stageInfo.questionCount
    /\ Len(report.individualEvaluations) = QuestionCount

\* a report after the model's summary was used, holding an evaluation that
\* is not valid among valid ones
C16_Witness ==
  /\ report.built
  /\ aggregation = "parsed"
  /\ QuestionCount >= 2
  /\ \E i \in DOMAIN report.individualEvaluations :
       ~report.individualEvaluations[i].preliminaryAnalysis.isValid
  /\ \E i \in DOMAIN report.individualEvaluations :
       report.individualEvaluations[i].preliminaryAnalysis.isValid

\* ------------------------------------------------------------ termination
Settled(task) == task.status \in {"fulfilled", "rejected"}
SyncDispatched == body /= NoBody /\ body.kind = "ok" /\ ~body.async

\* C17: every dispatched task eventually settles, whatever happens to the
\* other tasks, and a synchronous request eventually receives a response.
C17_TasksSettleAndSyncAnswers ==
  /\ \A index \in 1..MaxQuestions :
       (index \in DOMAIN tasks /\ tasks[index].status = "attempting")
          ~> (index \in DOMAIN tasks /\ Settled(tasks[index]))
  /\ SyncDispatched ~> (response.kind \in {"report", "error"})

\* a synchronous request has its response after one task failed and
\* another returned
C17_Witness ==
  /\ SyncDispatched
  /\ response.kind \in {"report", "error"}
  /\ \A index \in DOMAIN tasks : Settled(tasks[index])
  /\ \E index \in DOMAIN evaluatorLog : evaluatorLog[index].outcome = "failed"
  /\ \E index \in DOMAIN evaluatorLog : evaluatorLog[index].outcome = "returned"

\* ------------------------------------------------------------ credential
\* C19: without the credential generateOverallSummary returns the fallback
\* summary, builds no request and issues no call to the aggregation model;
\* with it, at most one call is issued per invocation.
C19_NoKeyNoCallElseAtMostOne ==
  /\ ~apiKey =>
       /\ fetchCalls = 0
       /\ prompt = <<>>
       /\ Joined =>
            /\ aggregation = "noKey"
            /\ overallSummary =
                 generateFallbackSummary(summaryCalls[1], StageInfoOf(body.questions))
  /\ apiKey =>
       /\ fetchCalls <= Len(summaryCalls)
       /\ Len(prompt) = fetchCalls
       /\ fetchCalls <= 1

\* a report was assembled without the credential
C19_Witness ==
  /\ ~apiKey
  /\ report.built
  /\ aggregation = "noKey"
  /\ fetchCalls = 0
  /\ prompt = <<>>

\* ------------------------------------------------------------- ordinals
\* retained positions whose level is not a key of the table
RetainedOutsideTable == {i \in Retained : fsInput[i].performanceLevel \notin LevelTable}

\* C20: every retained evaluation contributes an ordinal in 1..4 to the
\* average: a level of the table its ordinal, any other retained level 1;
\* so the average of a non-empty retained set lies in [1, 4].
C20_RetainedContributeOrdinals ==
  (fsDone /\ Retained /= {}) =>
    /\ fsLog.divided
    /\ fsLog.avgScore.den = Cardinality(Retained)
    /\ fsLog.avgScore.num =
         4 * RetainedAt("DaoYanJi") + 3 * RetainedAt("ZhiPianJi")
         + 2 * RetainedAt("BianJuJi") + RetainedAt("ZhuLiJi")
         + Cardinality(RetainedOutsideTable)
    /\ fsLog.avgScore.den <= fsLog.avgScore.num
    /\ fsLog.avgScore.num <= 4 * fsLog.avgScore.den

\* a retained label of the other naming scheme averaged with a top level
C20_Witness ==
  /\ fsDone
  /\ RetainedOutsideTable /= {}
  /\ RetainedAt("DaoYanJi") > 0
  /\ Cardinality(Retained) = 2
  /\ fsLog.avgScore = [num |-> 5, den |-> 2]
====
